---- MODULE Spec2Model ----
(***************************************************************************)
(* Ad Astra: the two-phase skin-analysis pipeline.                         *)
(*                                                                         *)
(*   - server: the in-memory analysisCache, the describe-skin-image and    *)
(*     get-skin-conclusion handlers and the per-entry cleanup timer        *)
(*     (src/server/src/index.ts);                                          *)
(*   - server: the parser of the model reply, the analyze-skin endpoint,   *)
(*     handleAIError and the /api/ai/chat handler with its history         *)
(*     sanitization (src/server/src/index.ts);                             *)
(*   - client: the offline queue kept in localStorage, its replay pass,    *)
(*     the triggers of the replay and the submission handler of the        *)
(*     SkinDetector (src/services/geminiService.ts, App, SkinDetector);    *)
(*   - client: the views of the App, the Home component that presents the  *)
(*     stored results, and the camera of the SkinDetector.                 *)
(*                                                                         *)
(* Each part has its own specification (SpecServer, SpecParser, SpecChat,  *)
(* SpecSanitize, SpecQueue, SpecReplay, SpecHome, SpecSubmit,              *)
(* SpecNavigate, SpecCamera); the variables of the other parts stay at     *)
(* their initial value.                                                    *)
(***************************************************************************)
EXTENDS Integers, Sequences, FiniteSets, TLC

(***************************************************************************)
(* Bounds of the model.                                                    *)
(***************************************************************************)
\* number of analysis sessions phase 1 may create
MaxSessions == 1
\* number of get-skin-conclusion requests
MaxRequests == 2
\* last instant of the server clock
MaxServerTime == 4
\* number of replay passes that may be in flight together
MaxPasses == 2
\* longest offline queue
MaxQueueLen == 2
\* last instant of the client clock
MaxClientTime == 1
\* longest list of results a replay pass may build
MaxResults == 2
\* longest stored chat history
MaxHistory == 5
\* number of getUserMedia calls of one SkinDetector
MaxStreams == 3

(***************************************************************************)
(* Program constants.                                                      *)
(***************************************************************************)
\* delay of the cleanup timer, 15 * 60 * 1000 ms, in units of five minutes
CacheTtl == 3

VARIABLES
    \* ---- server ----
    analysisCache,   \* Map analysisId -> { description, cleanupTimer }
    timers,          \* state of the setTimeout handle of each analysisId
    timerDue,        \* instant at which the handle of each analysisId is due
    serverNow,       \* server clock
    nextAnalysisId,  \* number of crypto.randomUUID() values drawn so far
    p1Response,      \* status of the last describe-skin-image response
    p2,              \* the get-skin-conclusion requests
    \* ---- client ----
    analysisQueueItem,    \* localStorage item 'analysisQueue'
    analysisResultsItem,  \* localStorage item 'analysisResults'
    clientNow,            \* Date.now() of the browser
    online,               \* navigator.onLine
    appEffect,            \* life cycle of the App effect that listens to 'online'
    pass,                 \* the invocations of processAnalysisQueue
    detector,             \* step and error of the SkinDetector
    submission,           \* the invocation of handleSubmitAnalysis
    delivered,            \* entries whose analyze-skin call has succeeded
    \* ---- chat ----
    chatSession,     \* the ChatSession document of the user, if any
    chat,            \* the /api/ai/chat request being handled
    \* ---- model replies ----
    modelAnswer,     \* what generateContent answers to the analysis prompt
    combinedResponse,  \* the response of the analyze-skin endpoint, if any
    \* ---- views ----
    app,             \* currentView and result of the App
    home,            \* offlineResults and queuedCount of the Home component
    queueProcessed,  \* parity of the number of 'queueProcessed' events
    camera           \* the camera of the SkinDetector

serverVars == <<analysisCache, timers, timerDue, serverNow, nextAnalysisId,
                p1Response, p2>>

clientVars == <<analysisQueueItem, analysisResultsItem, clientNow, online,
                appEffect, pass, detector, submission, delivered>>

chatVars == <<chatSession, chat>>

aiVars == <<modelAnswer, combinedResponse>>

uiVars == <<app, home, queueProcessed>>

vars == <<serverVars, clientVars, chatVars, aiVars, uiVars, camera>>

(***************************************************************************)
(* Server: analysis session cache.                                         *)
(***************************************************************************)
\* analysisIds produced by crypto.randomUUID(): 1, 2, ...
SessionIds == 1..MaxSessions
\* an analysisId no phase 1 ever returned
UnknownId == 0
RequestIds == SessionIds \cup {UnknownId}
Requests == 1..MaxRequests

\* texts the model returns for an image; "" is a reply without text
Descriptions == {"redness", "swelling"}

\* what the second model call of get-skin-conclusion produces
\*   parsed      a reply with a CONCLUSION and an EXPLANATION line
\*   unparsable  a reply lacking one of them
\*   empty       a reply without text
\*   rateLimit   generateContent throws an error carrying a 429/quota signal
\*   failure     generateContent throws any other error
ModelOutcomes == {"parsed", "unparsable", "empty", "rateLimit", "failure"}

\* a lookup that answers an absent id with a fresh empty session
CacheGetOrCreate(cache, id) ==
    IF id \in DOMAIN cache
      THEN {cache[id]}
      ELSE {[description |-> "", cleanupTimer |-> id]}

\* analysisCache.get(id): the entry, if any
CacheGet(cache, id) ==
    IF id \in DOMAIN cache THEN {cache[id]} ELSE {}

\* analysisCache.set(id, entry)
CacheSet(cache, id, entry) ==
    [k \in DOMAIN cache \cup {id} |-> IF k = id THEN entry ELSE cache[k]]

\* a delete that leaves the entry in place
CacheDeleteNothing(cache, id) ==
    cache

\* analysisCache.delete(id)
CacheDelete(cache, id) ==
    [k \in DOMAIN cache \ {id} |-> cache[k]]

\* a clearTimeout that leaves the handle pending
KeepTimeout(tm, id) ==
    tm

\* clearTimeout(handle): cancels a pending handle, no effect on any other
ClearTimeout(tm, id) ==
    IF tm[id] = "armed" THEN [tm EXCEPT ![id] = "cleared"] ELSE tm

\* handleAIError: 429 for a rate-limit signal, 500 otherwise
HandleAIError(kind) ==
    IF kind = "rateLimit" THEN 429 ELSE 500

IdleRequest ==
    [pc |-> "idle", analysisId |-> UnknownId, description |-> "",
     status |-> 0, calledModel |-> FALSE]

ServerStart ==
    /\ analysisCache = [k \in {} |-> 0]
    /\ timers = [i \in RequestIds |-> "none"]
    /\ timerDue = [i \in RequestIds |-> 0]
    /\ serverNow = 0
    /\ nextAnalysisId = 0
    /\ p1Response = 0
    /\ p2 = [r \in Requests |-> IdleRequest]

\* POST /api/ai/describe-skin-image.  The handler touches the cache only
\* after its single await, so the request is one step.
DescribeSkinImage(validBody, outcome, text) ==
    /\ IF ~validBody
         THEN /\ p1Response' = 400
              /\ UNCHANGED <<analysisCache, timers, timerDue, nextAnalysisId>>
       ELSE IF outcome \in {"rateLimit", "failure"}
         THEN /\ p1Response' = HandleAIError(outcome)
              /\ UNCHANGED <<analysisCache, timers, timerDue, nextAnalysisId>>
       ELSE IF text = ""
         THEN /\ p1Response' = HandleAIError("failure")
              /\ UNCHANGED <<analysisCache, timers, timerDue, nextAnalysisId>>
       ELSE /\ nextAnalysisId < MaxSessions
            /\ LET analysisId == nextAnalysisId + 1 IN
                 /\ nextAnalysisId' = analysisId
                 /\ timers' = [timers EXCEPT ![analysisId] = "armed"]
                 /\ timerDue' = [timerDue EXCEPT
                                   ![analysisId] = serverNow + CacheTtl]
                 /\ analysisCache' =
                      CacheSet(analysisCache, analysisId,
                               [description |-> text,
                                cleanupTimer |-> analysisId])
                 /\ p1Response' = 200
    /\ UNCHANGED <<serverNow, p2>>
    /\ UNCHANGED <<clientVars, chatVars, aiVars, uiVars, camera>>

\* the callback of the cleanup timer
CleanupTimerFires(id) ==
    /\ timers[id] = "armed"
    /\ serverNow >= timerDue[id]
    /\ analysisCache' = CacheDelete(analysisCache, id)
    /\ timers' = [timers EXCEPT ![id] = "fired"]
    /\ UNCHANGED <<timerDue, serverNow, nextAnalysisId, p1Response, p2>>
    /\ UNCHANGED <<clientVars, chatVars, aiVars, uiVars, camera>>

\* POST /api/ai/get-skin-conclusion, up to the await of the model call
GetSkinConclusionLookup(r, id) ==
    /\ p2[r].pc = "idle"
    /\ \A q \in Requests : q < r => p2[q].pc # "idle"
    \* the body carries an id some phase 1 returned, or one none returned
    /\ id \in 0..nextAnalysisId
    /\ LET cached == CacheGet(analysisCache, id) IN
         IF cached = {}
           THEN /\ p2' = [p2 EXCEPT ![r] =
                            [pc |-> "done", analysisId |-> id,
                             description |-> "", status |-> 404,
                             calledModel |-> FALSE]]
                /\ UNCHANGED timers
           ELSE LET entry == CHOOSE e \in cached : TRUE IN
                /\ timers' = ClearTimeout(timers, entry.cleanupTimer)
                /\ p2' = [p2 EXCEPT ![r] =
                            [pc |-> "awaitModel", analysisId |-> id,
                             description |-> entry.description,
                             status |-> 0, calledModel |-> TRUE]]
    /\ UNCHANGED <<analysisCache, timerDue, serverNow, nextAnalysisId,
                   p1Response>>
    /\ UNCHANGED <<clientVars, chatVars, aiVars, uiVars, camera>>

\* POST /api/ai/get-skin-conclusion, from the model's reply to the response
GetSkinConclusionReply(r, outcome) ==
    /\ p2[r].pc = "awaitModel"
    /\ IF outcome = "parsed"
         THEN /\ analysisCache' = CacheDelete(analysisCache, p2[r].analysisId)
              /\ p2' = [p2 EXCEPT ![r].pc = "done", ![r].status = 200]
         ELSE /\ p2' = [p2 EXCEPT ![r].pc = "done",
                                  ![r].status = HandleAIError(outcome)]
              /\ UNCHANGED analysisCache
    /\ UNCHANGED <<timers, timerDue, serverNow, nextAnalysisId, p1Response>>
    /\ UNCHANGED <<clientVars, chatVars, aiVars, uiVars, camera>>

\* the server clock advances; a handle that is due runs before the clock
\* moves past its instant
ServerTick ==
    /\ serverNow < MaxServerTime
    /\ \A i \in SessionIds : timers[i] = "armed" => timerDue[i] > serverNow
    /\ serverNow' = serverNow + 1
    /\ UNCHANGED <<analysisCache, timers, timerDue, nextAnalysisId,
                   p1Response, p2>>
    /\ UNCHANGED <<clientVars, chatVars, aiVars, uiVars, camera>>

(***************************************************************************)
(* Server: texts, the parser of the model reply, handleAIError.            *)
(*                                                                         *)
(* A text is a sequence of tokens: the four labels, words, the blank " ",  *)
(* the line break "\n" and the item prefix "* ".                           *)
(***************************************************************************)
Whitespace == {" ", "\n"}

RECURSIVE TrimStart(_)
\* String.prototype.trimStart
TrimStart(text) ==
    IF Len(text) > 0 /\ Head(text) \in Whitespace
      THEN TrimStart(Tail(text))
      ELSE text

RECURSIVE TrimEnd(_)
\* String.prototype.trimEnd
TrimEnd(text) ==
    IF Len(text) > 0 /\ text[Len(text)] \in Whitespace
      THEN TrimEnd(SubSeq(text, 1, Len(text) - 1))
      ELSE text

\* String.prototype.trim
Trim(text) ==
    TrimEnd(TrimStart(text))

RECURSIVE Split(_, _)
\* String.prototype.split(separator): the pieces between the separators
Split(text, separator) ==
    IF \A i \in 1..Len(text) : text[i] # separator
      THEN <<text>>
      ELSE LET first == CHOOSE i \in 1..Len(text) :
                           /\ text[i] = separator
                           /\ \A j \in 1..(i - 1) : text[j] # separator
           IN <<SubSeq(text, 1, first - 1)>>
              \o Split(SubSeq(text, first + 1, Len(text)), separator)

\* the upper-case form of a token
UpperToken(token) ==
    CASE token = "mild" -> "MILD"
      [] token = "serious" -> "SERIOUS"
      [] token = "none" -> "NONE"
      [] token = "None" -> "NONE"
      [] token = "severe" -> "SEVERE"
      [] OTHER -> token

\* a conversion that keeps the case of every letter
KeepCase(text) ==
    text

\* String.prototype.toUpperCase
ToUpperCase(text) ==
    [i \in 1..Len(text) |-> UpperToken(text[i])]

\* line.startsWith(label)
StartsWith(line, label) ==
    Len(line) > 0 /\ line[1] = label

\* line.substring(label.length)
AfterLabel(line) ==
    Tail(line)

\* tipsString.split('* ').map(tip => tip.trim()).filter(Boolean)
SplitTips(tipsString) ==
    LET pieces == Split(tipsString, "* ")
        trimmed == [i \in 1..Len(pieces) |-> Trim(pieces[i])]
    IN SelectSeq(trimmed, LAMBDA tip : Len(tip) > 0)

\* const result: any = {}; a field that is not set is {}
EmptyResult ==
    [conclusion |-> {}, explanation |-> {}, selfCareTips |-> {},
     doctorSuggestion |-> {}]

\* the body of lines.forEach, for one line
ParseLine(result, line) ==
    IF StartsWith(line, "CONCLUSION:")
      THEN LET value == ToUpperCase(Trim(AfterLabel(line)))
           IN IF value = <<"MILD">> \/ value = <<"SERIOUS">>
                THEN [result EXCEPT !.conclusion = {value[1]}]
                ELSE result
    ELSE IF StartsWith(line, "EXPLANATION:")
      THEN [result EXCEPT !.explanation = {Trim(AfterLabel(line))}]
    ELSE IF StartsWith(line, "SELF_CARE_TIPS:")
      THEN LET tipsString == Trim(AfterLabel(line))
           IN IF ToUpperCase(tipsString) # <<"NONE">> /\ Len(tipsString) > 0
                THEN [result EXCEPT !.selfCareTips = {SplitTips(tipsString)}]
                ELSE result
    ELSE IF StartsWith(line, "DOCTOR_SUGGESTION:")
      THEN LET suggestion == Trim(AfterLabel(line))
           IN IF ToUpperCase(suggestion) # <<"NONE">> /\ Len(suggestion) > 0
                THEN [result EXCEPT !.doctorSuggestion = {suggestion}]
                ELSE result
    ELSE result

RECURSIVE ParseLines(_, _)
\* lines.forEach(...)
ParseLines(result, lines) ==
    IF Len(lines) = 0
      THEN result
      ELSE ParseLines(ParseLine(result, Head(lines)), Tail(lines))

\* the parser of get-skin-conclusion: responseText.trim().split('\n') and
\* the loop over the lines
ParseReply(responseText) ==
    ParseLines(EmptyResult, Split(Trim(responseText), "\n"))

\* a test that accepts every result
NeverUnparsable(result) ==
    FALSE

\* !result.conclusion || !result.explanation
Unparsable(result) ==
    \/ result.conclusion = {}
    \/ result.explanation = {}
    \/ result.explanation = {<<>>}

\* the value of a field that is set, or the alternative of "||"
ValueOr(field, alternative) ==
    IF field = {} THEN alternative ELSE CHOOSE value \in field : TRUE

\* the object passed to res.json on success: all four keys are present
ResultBody(result) ==
    [conclusion |-> ValueOr(result.conclusion, ""),
     explanation |-> ValueOr(result.explanation, <<>>),
     selfCareTips |-> ValueOr(result.selfCareTips, <<>>),
     doctorSuggestion |-> ValueOr(result.doctorSuggestion, <<>>)]

\* a parser that reads the first two lines only
ParseTwoLines(responseText) ==
    LET lines == Split(Trim(responseText), "\n")
    IN ParseLines(EmptyResult,
                  SubSeq(lines, 1, IF Len(lines) < 2 THEN Len(lines) ELSE 2))

\* the parser of analyze-skin: the same statements, written a second time
ParseCombinedReply(responseText) ==
    ParseLines(EmptyResult, Split(Trim(responseText), "\n"))

\* text.includes(part)
Includes(text, part) ==
    \E i \in 1..Len(text) : text[i] = part

\* the errors generateContent may throw: error.status, error.error.code and
\* error.message; 0 and <<>> stand for a property that is not defined
ErrorMessages ==
    {<<>>, <<"fetch", "failed">>, <<"got", "429">>, <<"quota", "exceeded">>}

Errors ==
    [status : {0, 429, 503}, code : {0, 429}, message : ErrorMessages]

NoError ==
    [status |-> 0, code |-> 0, message |-> <<>>]

\* new Error(message)
Thrown(message) ==
    [status |-> 0, code |-> 0, message |-> <<message>>]

\* a test that looks at the HTTP status of the error only
IsRateLimitByStatus(error) ==
    error.status = 429

\* isRateLimit of handleAIError
IsRateLimit(error) ==
    \/ error.status = 429
    \/ error.code = 429
    \/ /\ Len(error.message) > 0
       /\ \/ Includes(error.message, "429")
          \/ Includes(error.message, "quota")

\* the kind of an error, as handleAIError tells them apart
ErrorKind(error) ==
    IF IsRateLimit(error) THEN "rateLimit" ELSE "failure"

\* an error of the given kind
KindError(kind) ==
    IF kind = "rateLimit"
      THEN [status |-> 429, code |-> 0, message |-> <<>>]
      ELSE [status |-> 503, code |-> 0, message |-> <<>>]

RateLimitMessage ==
    <<"AI Service Busy: Rate limit reached. Please wait a moment and try again.">>

DefaultMessage ==
    <<"Failed to process AI request.">>

\* what handleAIError sends for an error
AIErrorResponse(error) ==
    [status |-> HandleAIError(ErrorKind(error)),
     body |-> [message |->
                 IF IsRateLimit(error) THEN RateLimitMessage
                 ELSE IF Len(error.message) > 0 THEN error.message
                 ELSE DefaultMessage]]

\* the lines a reply to the analysis prompt may consist of; <<>> is a line
\* the reply does not have
ConclusionLines ==
    {<<"CONCLUSION:", " ", "MILD">>, <<"CONCLUSION:", " ", "serious">>,
     <<"CONCLUSION:", " ", "SEVERE">>, <<>>}

ExplanationLines ==
    {<<"EXPLANATION:", " ", "rash">>, <<"EXPLANATION:">>, <<>>}

TipsLines ==
    {<<"SELF_CARE_TIPS:", " ", "NONE">>, <<"SELF_CARE_TIPS:", " ", "none">>,
     <<"SELF_CARE_TIPS:", " ", "* ", "Rest", " ", "* ", "Hydrate">>,
     <<"SELF_CARE_TIPS:", " ", "* ", "Rest", "\n", "* ", "Hydrate">>,
     <<"SELF_CARE_TIPS:">>}

DoctorLines ==
    {<<"DOCTOR_SUGGESTION:", " ", "NONE">>,
     <<"DOCTOR_SUGGESTION:", " ", "None">>,
     <<"DOCTOR_SUGGESTION:", " ", "Dermatologist">>,
     <<"DOCTOR_SUGGESTION:">>}

RECURSIVE JoinLines(_)
\* the lines that are there, separated by line breaks
JoinLines(lines) ==
    IF Len(lines) = 0 THEN <<>>
    ELSE LET rest == JoinLines(Tail(lines))
         IN IF Len(Head(lines)) = 0 THEN rest
            ELSE IF Len(rest) = 0 THEN Head(lines)
            ELSE Head(lines) \o <<"\n">> \o rest

\* the texts of a reply; <<>> is a reply without text
ReplyTexts ==
    {JoinLines(<<c, e, t, d>>) :
        c \in ConclusionLines, e \in ExplanationLines,
        t \in TipsLines, d \in DoctorLines}
    \cup {<<>>}

\* what generateContent does on the analysis prompt: it returns a text or
\* throws an error
ConclusionAnswers ==
    {[kind |-> "text", text |-> t, error |-> NoError] : t \in ReplyTexts}
    \cup {[kind |-> "error", text |-> <<>>, error |-> e] : e \in Errors}

\* what generateContent does on the image prompt
DescriptionAnswers ==
    {[kind |-> "text", text |-> t] : t \in Descriptions \cup {""}}
    \cup {[kind |-> k, text |-> ""] : k \in {"rateLimit", "failure"}}

\* the model is not asked
NoAnswer ==
    [description |-> [kind |-> "failure", text |-> ""],
     conclusion |-> [kind |-> "error", text |-> <<>>, error |-> NoError]]

\* the outcome of the second model call of get-skin-conclusion
ReplyOutcome(answer) ==
    IF answer.kind = "error" THEN ErrorKind(answer.error)
    ELSE IF Len(answer.text) = 0 THEN "empty"
    ELSE IF Unparsable(ParseReply(answer.text)) THEN "unparsable"
    ELSE "parsed"

\* the response of get-skin-conclusion on a cache hit
ConclusionResponse(answer) ==
    IF answer.kind = "error" THEN AIErrorResponse(answer.error)
    ELSE IF Len(answer.text) = 0
      THEN AIErrorResponse(Thrown(
             "AI model returned an empty response during the final analysis."))
    ELSE LET result == ParseReply(answer.text)
         IN IF Unparsable(result)
              THEN AIErrorResponse(Thrown(
                     "Received an unparsable response from the AI."))
              ELSE [status |-> 200, body |-> ResultBody(result)]

\* the response of analyze-skin once it has the description
CombinedConclusionResponse(answer) ==
    IF answer.kind = "error" THEN AIErrorResponse(answer.error)
    ELSE IF Len(answer.text) = 0
      THEN AIErrorResponse(Thrown("AI model returned an empty response."))
    ELSE LET result == ParseCombinedReply(answer.text)
         IN IF Unparsable(result)
              THEN AIErrorResponse(Thrown(
                     "Received an unparsable AI response."))
              ELSE [status |-> 200, body |-> ResultBody(result)]

AiStart ==
    /\ modelAnswer = NoAnswer
    /\ combinedResponse = {}

\* POST /api/ai/analyze-skin.  The handler reads and writes no shared state,
\* so the request is one step.
AnalyzeSkin(validBody) ==
    /\ combinedResponse = {}
    /\ LET description == modelAnswer.description
           response ==
             IF ~validBody
               THEN [status |-> 400,
                     body |-> [message |->
                                 <<"Invalid image data provided.">>]]
             ELSE IF description.kind # "text"
               THEN AIErrorResponse(KindError(description.kind))
             ELSE IF description.text = ""
               THEN AIErrorResponse(Thrown(
                      "The AI could not analyze the provided image."))
             ELSE CombinedConclusionResponse(modelAnswer.conclusion)
       IN combinedResponse' =
            {[validBody |-> validBody, status |-> response.status,
              body |-> response.body]}
    /\ UNCHANGED modelAnswer
    /\ UNCHANGED <<serverVars, clientVars, chatVars, uiVars, camera>>

(***************************************************************************)
(* Server: the /api/ai/chat handler.                                       *)
(*                                                                         *)
(* A turn of the stored history is a role and the text of its one part.    *)
(* The client sends one chat request at a time, so one request is in flight*)
(* for the user.                                                           *)
(***************************************************************************)
ChatLanguages == {"en", "hi"}

\* the messages of a request; " " is a message of blanks only
ChatMessages == {"fever", " "}

\* the non-empty texts response.text may be
ChatReplyTexts == {"reply", " "}

\* what chat.sendMessage does: it returns a text, returns no text or throws
ChatOutcomes == {"text", "empty", "rateLimit", "failure"}

Turns ==
    [role : {"user", "model"}, text : ChatMessages \cup ChatReplyTexts]

\* p.text && p.text.trim().length > 0
HasText(turn) ==
    turn.text \notin {"", " "}

\* step 1: session.history.filter(...)
FilterEmpty(history) ==
    SelectSeq(history, HasText)

\* step 3: one shift() when the first turn is not a user turn
DropLeadingModel(history) ==
    IF Len(history) > 0 /\ history[1].role # "user"
      THEN Tail(history)
      ELSE history

RECURSIVE CollapseRuns(_, _)
\* step 4, the loop: a turn with the role of the previous one replaces it
CollapseRuns(sanitizedHistory, rest) ==
    IF Len(rest) = 0
      THEN sanitizedHistory
      ELSE LET current == Head(rest)
               last == Len(sanitizedHistory)
           IN IF current.role = sanitizedHistory[last].role
                THEN CollapseRuns(
                       Append(SubSeq(sanitizedHistory, 1, last - 1), current),
                       Tail(rest))
                ELSE CollapseRuns(Append(sanitizedHistory, current),
                                  Tail(rest))

\* a repair of step 4 that puts a placeholder turn of the other role between
\* two turns of the same role (the alternative the comment at lines 553-556
\* rejects)
PadRoles(history) ==
    LET other(role) == IF role = "user" THEN "model" ELSE "user"
        padded(i) == IF i > 1 /\ history[i].role = history[i - 1].role
                       THEN <<[role |-> other(history[i].role),
                               text |-> "..."],
                              history[i]>>
                       ELSE <<history[i]>>
        Join[i \in 0..Len(history)] ==
            IF i = 0 THEN <<>> ELSE Join[i - 1] \o padded(i)
    IN Join[Len(history)]

\* step 4
AlternateRoles(history) ==
    IF Len(history) = 0
      THEN <<>>
      ELSE CollapseRuns(<<history[1]>>, Tail(history))

\* step 5: one pop() when the last turn is a user turn
DropTrailingUser(history) ==
    IF Len(history) > 0 /\ history[Len(history)].role = "user"
      THEN SubSeq(history, 1, Len(history) - 1)
      ELSE history

\* the history given to ai.chats.create
SanitizeHistory(history) ==
    DropTrailingUser(AlternateRoles(DropLeadingModel(FilterEmpty(history))))

\* an update that changes the language and keeps the turns
UpdateLanguageOnly(found, language) ==
    [language |-> language,
     history |-> IF found = {} THEN <<>>
                 ELSE (CHOOSE s \in found : TRUE).history]

\* ChatSession.findOneAndUpdate({ userPhone }, { language, history: [] },
\* { upsert: true, new: true })
FindOneAndUpdate(found, language) ==
    [language |-> language, history |-> <<>>]

IdleChat ==
    [pc |-> "idle", message |-> "", language |-> "", found |-> {},
     sent |-> <<>>, status |-> 0]

ChatStart ==
    /\ chatSession = {}
    /\ chat = IdleChat

\* POST /api/ai/chat, up to the await of chat.sendMessage: finds or resets
\* the session, sanitizes its history for the model, pushes the user turn
\* and saves
ChatRequest(message, language) ==
    /\ chat.pc = "idle"
    /\ LET found == chatSession
           session ==
             IF found = {} \/ (CHOOSE s \in found : TRUE).language # language
               THEN FindOneAndUpdate(found, language)
               ELSE CHOOSE s \in found : TRUE
       IN /\ Len(session.history) + 2 <= MaxHistory
          /\ chatSession' =
               {[session EXCEPT !.history =
                   Append(@, [role |-> "user", text |-> message])]}
          /\ chat' = [pc |-> "sending", message |-> message,
                      language |-> language, found |-> found,
                      sent |-> SanitizeHistory(session.history),
                      status |-> 0]
    /\ UNCHANGED <<serverVars, clientVars, aiVars, uiVars, camera>>

\* POST /api/ai/chat, from the completion of chat.sendMessage to the
\* response
ChatModelReturns(outcome, responseText) ==
    /\ chat.pc = "sending"
    /\ LET session == CHOOSE s \in chatSession : TRUE
           last == Len(session.history)
       IN IF outcome = "text"
            THEN /\ chatSession' =
                      {[session EXCEPT !.history =
                          Append(@, [role |-> "model",
                                     text |-> responseText])]}
                 /\ chat' = [chat EXCEPT !.pc = "idle", !.status = 200]
          ELSE IF outcome = "empty"
            THEN /\ chatSession' =
                      {[session EXCEPT !.history = SubSeq(@, 1, last - 1)]}
                 /\ chat' = [chat EXCEPT !.pc = "idle",
                                         !.status = HandleAIError("failure")]
          ELSE /\ UNCHANGED chatSession
               /\ chat' = [chat EXCEPT !.pc = "idle",
                                       !.status = HandleAIError(outcome)]
    /\ UNCHANGED <<serverVars, clientVars, aiVars, uiVars, camera>>

(***************************************************************************)
(* Client: offline queue, replay pass, replay triggers, submission.        *)
(***************************************************************************)
Passes == 1..MaxPasses

\* the files a user may select: base64 is the part of the FileReader data
\* URL after the comma, type is file.type
Files == {[base64 |-> "AAAA", type |-> "image/png"],
          [base64 |-> "BBBB", type |-> "image/jpeg"]}
NoFile == [base64 |-> "", type |-> ""]
Languages == {"en"}
McqAnswerSets == {"{duration:days}"}
Conclusions == {"MILD", "SERIOUS"}

\* a read that yields no data
ReadAsNothing(file) == ""

\* (reader.result as string).split(',')[1]
ReadAsBase64(file) == file.base64

\* JSON.parse(localStorage.getItem(key) || '[]'); an absent item is {}
ParseList(item) ==
    IF item = {} THEN <<>> ELSE CHOOSE list \in item : TRUE

\* what localStorage.setItem(key, JSON.stringify(list)) stores
StoredList(list) == {list}

\* the item after localStorage.removeItem(key)
RemovedItem == {}

\* a request put at the head of the queue
UnshiftRequest(queue, request) ==
    <<request>> \o queue

\* queue.push(newRequest)
PushRequest(queue, request) ==
    Append(queue, request)

\* queue.filter(r => r.id !== request.id)
FilterOutId(queue, id) ==
    SelectSeq(queue, LAMBDA r : r.id # id)

\* the TriageResult the analyze-skin endpoint answers for a payload
AnalyzeSkinResult(payload, conclusion) ==
    [conclusion |-> conclusion, explanation |-> payload.base64ImageData]

IdlePass ==
    [pc |-> "idle", snapshot |-> <<>>, idx |-> 0, queue |-> <<>>,
     results |-> <<>>, log |-> <<>>, alone |-> TRUE]

FreshDetector ==
    [step |-> "upload", file |-> NoFile, error |-> "none"]

IdleSubmission ==
    [pc |-> "idle",
     payload |-> [base64ImageData |-> "", mimeType |-> "", language |-> "",
                  mcqAnswers |-> ""]]

\* the App as initializeApp leaves it for a saved user
StartApp ==
    [currentView |-> "Home", result |-> {}]

\* the state of a Home component before its effects have run, which is also
\* how the model keeps the state while no Home is rendered
FreshHome ==
    [mounted |-> FALSE, offlineResults |-> <<>>, queuedCount |-> 0]

\* Home.checkOfflineStatus: each state is set from its item when the item is
\* present
CheckOfflineStatus(state, resultsItem, queueItem) ==
    [mounted |-> TRUE,
     offlineResults |-> IF resultsItem = RemovedItem
                          THEN state.offlineResults
                          ELSE ParseList(resultsItem),
     queuedCount |-> IF queueItem = RemovedItem
                       THEN state.queuedCount
                       ELSE Len(ParseList(queueItem))]

\* a Home component after its mount effect
MountHome(resultsItem, queueItem) ==
    CheckOfflineStatus(FreshHome, resultsItem, queueItem)

\* the view the App renders
SkinMounted == app.currentView = "Skin"

\* a state update of the SkinDetector: it has no effect once the component
\* is unmounted
SetState(next) ==
    IF SkinMounted THEN next ELSE detector

\* the camera of a SkinDetector that has just been mounted
\*   streamRef  streamRef.current, 0 for null
\*   live       the streams getUserMedia returned whose tracks are not stopped
\*   pending    number of getUserMedia calls not yet settled
\*   calls      number of getUserMedia calls so far
\*   confirming handleConfirmPhoto is at its awaits
FreshCamera ==
    [mounted |-> TRUE, isCameraOpen |-> FALSE, capturedImage |-> FALSE,
     confirming |-> FALSE, streamRef |-> 0, live |-> {}, pending |-> 0,
     calls |-> 0]

UiStart ==
    /\ app = StartApp
    /\ home = FreshHome
    /\ queueProcessed = 0
    /\ camera = FreshCamera

\* the script of the page before the App has mounted
ScriptStart ==
    /\ UiStart
    /\ clientNow = 0
    /\ online \in BOOLEAN
    /\ appEffect = "unmounted"
    /\ pass = [p \in Passes |-> IdlePass]
    /\ detector = FreshDetector
    /\ submission = IdleSubmission
    /\ delivered = {}

\* a browser whose localStorage holds neither collection
ClientStart ==
    /\ ScriptStart
    /\ analysisQueueItem = RemovedItem
    /\ analysisResultsItem = RemovedItem

\* the App component is mounted and its effects have settled
Running == appEffect = "mounted"

\* the browser runs no script of the page
Settled == appEffect \in {"unmounted", "mounted"}

\* the passes after an operation that is not a step of their own
Disturbed(ps) ==
    [q \in Passes |->
        IF ps[q].pc = "calling" THEN [ps[q] EXCEPT !.alone = FALSE]
        ELSE ps[q]]

\* a trigger that starts no pass
ProcessNothing ==
    pass' = pass

\* processAnalysisQueue, up to its first await: reads both collections and
\* issues the call for the first entry; returns at once on an empty queue
ProcessAnalysisQueue ==
    LET queue == ParseList(analysisQueueItem) IN
    IF Len(queue) = 0
      THEN pass' = pass
      ELSE \E p \in Passes :
             /\ pass[p].pc = "idle"
             /\ \A q \in Passes : q < p => pass[q].pc # "idle"
             /\ pass' = [Disturbed(pass) EXCEPT ![p] =
                           [pc |-> "calling", snapshot |-> queue, idx |-> 1,
                            queue |-> queue,
                            results |-> ParseList(analysisResultsItem),
                            log |-> <<>>, alone |-> TRUE]]

\* the listener that sees the items as they are before the two writes
DispatchBeforeWrites(state, resultsWritten, queueWritten) ==
    CheckOfflineStatus(state, analysisResultsItem, analysisQueueItem)

\* window.dispatchEvent as the last statement of processAnalysisQueue: the
\* listener of a mounted Home runs within the call and reads the two items
\* just written
DispatchQueueProcessed(state, resultsWritten, queueWritten) ==
    CheckOfflineStatus(state, resultsWritten, queueWritten)

\* processAnalysisQueue, from the completion of the call for the current
\* entry to the next await, or to the two writes and the event after the
\* last entry.  The loop iterates the array read at the start.
ReplayCallReturns(p, ok, conclusion) ==
    /\ Running
    /\ pass[p].pc = "calling"
    /\ ok => Len(pass[p].results) < MaxResults
    /\ LET request == pass[p].snapshot[pass[p].idx]
           results == IF ok
                        THEN Append(pass[p].results,
                                    AnalyzeSkinResult(request.payload,
                                                      conclusion))
                        ELSE pass[p].results
           queue == IF ok THEN FilterOutId(pass[p].queue, request.id)
                          ELSE pass[p].queue
           log == Append(pass[p].log, IF ok THEN conclusion ELSE "failed")
       IN /\ delivered' = IF ok THEN delivered \cup {request} ELSE delivered
          /\ IF pass[p].idx < Len(pass[p].snapshot)
               THEN /\ pass' = [Disturbed(pass) EXCEPT ![p] =
                                  [pass[p] EXCEPT !.idx = @ + 1,
                                                  !.results = results,
                                                  !.queue = queue,
                                                  !.log = log]]
                    /\ UNCHANGED <<analysisQueueItem, analysisResultsItem,
                                   home, queueProcessed>>
               ELSE /\ analysisResultsItem' = StoredList(results)
                    /\ analysisQueueItem' = StoredList(queue)
                    /\ pass' = [Disturbed(pass) EXCEPT ![p] = IdlePass]
                    \* dispatchEvent runs the listener of a mounted Home
                    /\ queueProcessed' = 1 - queueProcessed
                    /\ home' = IF home.mounted
                                 THEN DispatchQueueProcessed(
                                          home, StoredList(results),
                                          StoredList(queue))
                                 ELSE home
    /\ UNCHANGED <<clientNow, online, appEffect, detector, submission>>
    /\ UNCHANGED <<serverVars, chatVars, aiVars, app, camera>>

\* the App effect: registers handleOnline and calls it when already online.
\* Under React.StrictMode a development build runs the effect, its cleanup
\* and the effect again before anything else; a production build runs it
\* once.
AppEffectMount(strictMode) ==
    /\ appEffect \in {"unmounted", "cleaned"}
    /\ appEffect' = IF appEffect = "unmounted" /\ strictMode
                      THEN "mountedOnce" ELSE "mounted"
    /\ IF online THEN ProcessAnalysisQueue ELSE pass' = pass
    /\ UNCHANGED <<analysisQueueItem, analysisResultsItem, clientNow, online,
                   detector, submission, delivered>>
    /\ UNCHANGED <<serverVars, chatVars, aiVars, uiVars, camera>>

\* the cleanup of the App effect: removes the listener
AppEffectCleanup ==
    /\ appEffect = "mountedOnce"
    /\ appEffect' = "cleaned"
    /\ UNCHANGED <<analysisQueueItem, analysisResultsItem, clientNow, online,
                   pass, detector, submission, delivered>>
    /\ UNCHANGED <<serverVars, chatVars, aiVars, uiVars, camera>>

\* the page is loaded again: the script state is gone, localStorage stays
PageReload ==
    /\ Running
    /\ appEffect' = "unmounted"
    /\ pass' = [p \in Passes |-> IdlePass]
    /\ detector' = FreshDetector
    /\ submission' = IdleSubmission
    /\ app' = StartApp
    /\ home' = FreshHome
    /\ UNCHANGED <<analysisQueueItem, analysisResultsItem, clientNow, online,
                   delivered>>
    /\ UNCHANGED <<serverVars, chatVars, aiVars, queueProcessed, camera>>

\* the browser's 'online' event: navigator.onLine turns true and the
\* registered handleOnline runs
OnlineEvent ==
    /\ Settled
    /\ ~online
    /\ online' = TRUE
    /\ IF Running THEN ProcessAnalysisQueue ELSE pass' = pass
    /\ UNCHANGED <<analysisQueueItem, analysisResultsItem, clientNow,
                   appEffect, detector, submission, delivered>>
    /\ UNCHANGED <<serverVars, chatVars, aiVars, uiVars, camera>>

\* navigator.onLine turns false
OfflineEvent ==
    /\ Settled
    /\ online
    /\ online' = FALSE
    /\ UNCHANGED <<analysisQueueItem, analysisResultsItem, clientNow,
                   appEffect, pass, detector, submission, delivered>>
    /\ UNCHANGED <<serverVars, chatVars, aiVars, uiVars, camera>>

\* Date.now() advances.  It reads the wall clock in milliseconds: two
\* readings are equal when they fall in the same millisecond (two tabs share
\* localStorage) or when the clock has been set back in between.
ClientTick ==
    /\ Settled
    /\ clientNow < MaxClientTime
    /\ clientNow' = clientNow + 1
    /\ UNCHANGED <<analysisQueueItem, analysisResultsItem, online, appEffect,
                   pass, detector, submission, delivered>>
    /\ UNCHANGED <<serverVars, chatVars, aiVars, uiVars, camera>>

\* queueAnalysisRequest: read, push, write, with no await in between
QueueAnalysisRequest(payload) ==
    LET queue == ParseList(analysisQueueItem)
        newRequest == [id |-> clientNow, payload |-> payload,
                       timestamp |-> clientNow]
    IN /\ Len(queue) < MaxQueueLen
       /\ analysisQueueItem' = StoredList(PushRequest(queue, newRequest))
       /\ pass' = Disturbed(pass)

\* SkinDetector.handleFileChange
HandleFileChange(file) ==
    /\ SkinMounted
    /\ detector.step = "upload"
    /\ detector' = [detector EXCEPT !.file = file, !.error = "none"]
    /\ UNCHANGED <<analysisQueueItem, analysisResultsItem, clientNow, online,
                   appEffect, pass, submission, delivered>>
    /\ UNCHANGED <<serverVars, chatVars, aiVars, uiVars, camera>>

\* SkinDetector.handleProceedToMcq; it tests the preview image, which
\* handleFileChange sets together with the file
HandleProceedToMcq ==
    /\ SkinMounted
    /\ detector.step = "upload"
    /\ IF detector.file = NoFile
         THEN detector' = [detector EXCEPT !.error = "error_select_image"]
         ELSE detector' = [detector EXCEPT !.step = "mcq", !.error = "none"]
    /\ UNCHANGED <<analysisQueueItem, analysisResultsItem, clientNow, online,
                   appEffect, pass, submission, delivered>>
    /\ UNCHANGED <<serverVars, chatVars, aiVars, uiVars, camera>>

\* SkinDetector.handleSubmitAnalysis, up to the await of the FileReader
HandleSubmitAnalysis(language, mcqAnswers) ==
    /\ SkinMounted
    /\ detector.step = "mcq"
    /\ submission.pc = "idle"
    /\ IF detector.file = NoFile
         THEN /\ detector' = [detector EXCEPT !.error = "error_select_image"]
              /\ UNCHANGED submission
         ELSE /\ detector' = [detector EXCEPT !.step = "loading",
                                              !.error = "none"]
              /\ submission' =
                   [pc |-> "reading",
                    payload |-> [base64ImageData |-> ReadAsBase64(detector.file),
                                 mimeType |-> detector.file.type,
                                 language |-> language,
                                 mcqAnswers |-> mcqAnswers]]
    /\ UNCHANGED <<analysisQueueItem, analysisResultsItem, clientNow, online,
                   appEffect, pass, delivered>>
    /\ UNCHANGED <<serverVars, chatVars, aiVars, uiVars, camera>>

\* SkinDetector.handleSubmitAnalysis, from the end of the file read to the
\* enqueue (offline) or to the await of startSkinAnalysis (online)
FileReaderDone(readOk) ==
    /\ submission.pc = "reading"
    /\ IF ~readOk
         THEN /\ detector' = SetState([detector EXCEPT
                                          !.step = "upload",
                                          !.error = "error_read_file"])
              /\ submission' = [submission EXCEPT !.pc = "idle"]
              /\ UNCHANGED <<analysisQueueItem, pass>>
       ELSE IF ~online
         THEN /\ QueueAnalysisRequest(submission.payload)
              /\ detector' = SetState([detector EXCEPT !.step = "queued"])
              /\ submission' = [submission EXCEPT !.pc = "idle"]
         ELSE /\ submission' = [submission EXCEPT !.pc = "phase1"]
              /\ UNCHANGED <<analysisQueueItem, pass, detector>>
    /\ UNCHANGED <<analysisResultsItem, clientNow, online, appEffect,
                   delivered>>
    /\ UNCHANGED <<serverVars, chatVars, aiVars, uiVars, camera>>

\* SkinDetector.handleSubmitAnalysis, from the answer of startSkinAnalysis
\* to the await of getSkinAnalysisConclusion
StartSkinAnalysisReturns(ok) ==
    /\ submission.pc = "phase1"
    /\ IF ok
         THEN /\ submission' = [submission EXCEPT !.pc = "phase2"]
              /\ UNCHANGED detector
         ELSE /\ submission' = [submission EXCEPT !.pc = "idle"]
              /\ detector' = SetState([detector EXCEPT !.step = "upload",
                                                       !.error = "remote"])
    /\ UNCHANGED <<analysisQueueItem, analysisResultsItem, clientNow, online,
                   appEffect, pass, delivered>>
    /\ UNCHANGED <<serverVars, chatVars, aiVars, uiVars, camera>>

\* SkinDetector.handleSubmitAnalysis, from the answer of
\* getSkinAnalysisConclusion to the setTimeout of onAnalysisComplete
GetSkinAnalysisConclusionReturns(ok) ==
    /\ submission.pc = "phase2"
    /\ IF ok
         THEN /\ submission' = [submission EXCEPT !.pc = "timer"]
              /\ UNCHANGED detector
         ELSE /\ submission' = [submission EXCEPT !.pc = "idle"]
              /\ detector' = SetState([detector EXCEPT !.step = "upload",
                                                       !.error = "remote"])
    /\ UNCHANGED <<analysisQueueItem, analysisResultsItem, clientNow, online,
                   appEffect, pass, delivered>>
    /\ UNCHANGED <<serverVars, chatVars, aiVars, uiVars, camera>>

\* the one-second timer calls onAnalysisComplete, which is
\* App.handleAnalysisComplete: setResult and navigateTo(View.Result); the
\* SkinDetector is unmounted.  Nothing cancels the timer.  The view does not
\* depend on the conclusion, so one conclusion stands for both.
AnalysisCompleteTimer ==
    /\ submission.pc = "timer"
    /\ submission' = [submission EXCEPT !.pc = "idle"]
    /\ detector' = FreshDetector
    /\ app' = [currentView |-> "Result",
               result |-> {AnalyzeSkinResult(submission.payload, "MILD")}]
    /\ UNCHANGED <<analysisQueueItem, analysisResultsItem, clientNow, online,
                   appEffect, pass, delivered>>
    /\ UNCHANGED <<serverVars, chatVars, aiVars, home, queueProcessed,
                   camera>>

\* onBack of the queued overlay: the App shows Home, the next SkinDetector
\* is a new component
OnBack ==
    /\ SkinMounted
    /\ detector.step = "queued"
    /\ detector' = FreshDetector
    /\ app' = [app EXCEPT !.currentView = "Home"]
    /\ UNCHANGED <<analysisQueueItem, analysisResultsItem, clientNow, online,
                   appEffect, pass, submission, delivered>>
    /\ UNCHANGED <<serverVars, chatVars, aiVars, home, queueProcessed,
                   camera>>

\* Home.onNavigate(View.Skin): a new SkinDetector is rendered.  One
\* invocation of handleSubmitAnalysis is followed at a time, so the view is
\* entered when none is in flight.
NavigateToSkin ==
    /\ app.currentView = "Home"
    /\ submission.pc = "idle"
    /\ app' = [app EXCEPT !.currentView = "Skin"]
    /\ home' = FreshHome
    /\ detector' = FreshDetector
    /\ UNCHANGED <<analysisQueueItem, analysisResultsItem, clientNow, online,
                   appEffect, pass, submission, delivered>>
    /\ UNCHANGED <<serverVars, chatVars, aiVars, queueProcessed, camera>>

\* App.reset: clears the result and renders Home
Reset ==
    /\ app' = [currentView |-> "Home", result |-> {}]
    /\ detector' = FreshDetector
    /\ UNCHANGED <<analysisQueueItem, analysisResultsItem, clientNow, online,
                   appEffect, pass, submission, delivered>>
    /\ UNCHANGED <<serverVars, chatVars, aiVars, home, queueProcessed,
                   camera>>

\* onReset of the TriageResult view
OnReset ==
    /\ app.currentView = "Result"
    /\ Reset

\* the home button of the Header, shown on every view but Home, Language
\* and Login: here the user leaves the SkinDetector
HeaderHomeClick ==
    /\ SkinMounted
    /\ Reset

\* the mount effect of the Home the App renders: checkOfflineStatus, and
\* the listener of 'queueProcessed' is registered
HomeEffect ==
    /\ Running
    /\ app.currentView = "Home"
    /\ ~home.mounted
    /\ home' = MountHome(analysisResultsItem, analysisQueueItem)
    /\ UNCHANGED clientVars
    /\ UNCHANGED <<serverVars, chatVars, aiVars, app, queueProcessed,
                   camera>>

\* Home.handleViewResultClick: the first of offlineResults is shown, the
\* rest is stored; the App renders the result in place of Home
HandleViewResultClick ==
    /\ Running
    /\ home.mounted
    /\ Len(home.offlineResults) > 0
    /\ LET resultToView == home.offlineResults[1]
           remainingResults == Tail(home.offlineResults)
       IN /\ home' = FreshHome
          /\ analysisResultsItem' = StoredList(remainingResults)
          /\ app' = [currentView |-> "Result", result |-> {resultToView}]
    /\ pass' = Disturbed(pass)
    /\ UNCHANGED <<analysisQueueItem, clientNow, online, appEffect, detector,
                   submission, delivered>>
    /\ UNCHANGED <<serverVars, chatVars, aiVars, queueProcessed, camera>>

\* App.handleLoginSuccess: renders Home
HandleLoginSuccess ==
    /\ Running
    /\ app.currentView = "Login"
    /\ app' = [app EXCEPT !.currentView = "Home"]
    /\ UNCHANGED clientVars
    /\ UNCHANGED <<serverVars, chatVars, aiVars, home, queueProcessed,
                   camera>>

(***************************************************************************)
(* Client: the camera of the SkinDetector.                                 *)
(***************************************************************************)
\* stopCameraStream: stops the tracks of streamRef.current and clears it
StopCameraStream(c) ==
    IF c.streamRef # 0
      THEN [c EXCEPT !.live = @ \ {c.streamRef}, !.streamRef = 0]
      ELSE c

\* openCamera, up to the await of getUserMedia
OpenCameraCall(c) ==
    [StopCameraStream(c) EXCEPT !.pending = @ + 1, !.calls = @ + 1]

\* closeCamera; the state updates have no effect on an unmounted component
CloseCameraState(c) ==
    [StopCameraStream(c) EXCEPT !.isCameraOpen = FALSE,
                                !.capturedImage = FALSE]

\* the frame of the camera actions
CameraFrame ==
    /\ UNCHANGED clientVars
    /\ UNCHANGED <<serverVars, chatVars, aiVars, uiVars>>

\* the "use camera" button of the upload step, shown while the overlay is
\* not; it is not disabled while an acquisition is pending
OpenCamera ==
    /\ camera.mounted
    /\ ~camera.isCameraOpen
    /\ camera.calls < MaxStreams
    /\ camera' = OpenCameraCall(camera)
    /\ CameraFrame

\* openCamera, from the settling of getUserMedia: the stream is stored in
\* streamRef.current whatever it held, and the overlay is opened
GetUserMediaReturns(ok) ==
    /\ camera.pending > 0
    /\ IF ok
         THEN LET \* a stream that is not live: a new MediaStream
                  fresh == CHOOSE id \in 1..MaxStreams :
                             /\ id \notin camera.live
                             /\ id # camera.streamRef
              IN camera' = [camera EXCEPT
                              !.pending = @ - 1,
                              !.live = @ \cup {fresh},
                              !.streamRef = fresh,
                              !.isCameraOpen = IF camera.mounted THEN TRUE
                                               ELSE @]
         ELSE camera' = [camera EXCEPT !.pending = @ - 1]
    /\ CameraFrame

\* handleCapture: takes the frame and stops the stream
HandleCapture ==
    /\ camera.mounted
    /\ camera.isCameraOpen
    /\ ~camera.capturedImage
    /\ camera' = [StopCameraStream(camera) EXCEPT !.capturedImage = TRUE]
    /\ CameraFrame

\* handleRetake: drops the captured image and opens the camera again
HandleRetake ==
    /\ camera.mounted
    /\ camera.isCameraOpen
    /\ camera.capturedImage
    /\ camera.calls < MaxStreams
    /\ camera' = [OpenCameraCall(camera) EXCEPT !.capturedImage = FALSE]
    /\ CameraFrame

\* handleConfirmPhoto, up to its awaits
HandleConfirmPhoto ==
    /\ camera.mounted
    /\ camera.isCameraOpen
    /\ camera.capturedImage
    /\ ~camera.confirming
    /\ camera' = [camera EXCEPT !.confirming = TRUE]
    /\ CameraFrame

\* handleConfirmPhoto, after its awaits: closeCamera
ConfirmPhotoDone ==
    /\ camera.confirming
    /\ camera' = [CloseCameraState(camera) EXCEPT !.confirming = FALSE]
    /\ CameraFrame

\* the cancel button of the overlay: closeCamera
CloseCamera ==
    /\ camera.mounted
    /\ camera.isCameraOpen
    /\ camera' = CloseCameraState(camera)
    /\ CameraFrame

\* the cleanup of the teardown effect: closeCamera, at unmount
CameraTeardown ==
    /\ camera.mounted
    /\ camera' = [CloseCameraState(camera) EXCEPT !.mounted = FALSE]
    /\ CameraFrame

\* App.handleLogout: removes both collections from localStorage
HandleLogout ==
    /\ Running
    /\ app.currentView # "Login"
    /\ analysisQueueItem' = RemovedItem
    /\ analysisResultsItem' = RemovedItem
    /\ pass' = Disturbed(pass)
    /\ app' = [app EXCEPT !.currentView = "Login"]
    /\ home' = FreshHome
    /\ UNCHANGED <<clientNow, online, appEffect, detector, submission,
                   delivered>>
    /\ UNCHANGED <<serverVars, chatVars, aiVars, queueProcessed, camera>>

\* handleSubmitAnalysis of a SkinDetector whose file read has succeeded,
\* reaching its connectivity test while navigator.onLine is false: the
\* handler enqueues the payload (the steps of the handler are the subject of
\* SpecSubmit)
OfflineSubmission(payload) ==
    /\ Running
    /\ ~online
    /\ QueueAnalysisRequest(payload)
    /\ UNCHANGED <<analysisResultsItem, clientNow, online, appEffect,
                   detector, submission, delivered>>
    /\ UNCHANGED <<serverVars, chatVars, aiVars, uiVars, camera>>

\* the payloads a submission may carry
Payloads ==
    {[base64ImageData |-> ReadAsBase64(f), mimeType |-> f.type,
      language |-> l, mcqAnswers |-> m] :
        f \in Files, l \in Languages, m \in McqAnswerSets}

\* the replay never reads a payload, so one payload stands for all of them
QueuePayloads ==
    {p \in Payloads : p.base64ImageData = "AAAA"}

\* the replay of the offline queue and everything that touches the two
\* collections
NextQueue ==
    \/ \E strictMode \in BOOLEAN : AppEffectMount(strictMode)
    \/ AppEffectCleanup
    \/ PageReload
    \/ OnlineEvent
    \/ OfflineEvent
    \/ ClientTick
    \/ \E p \in Passes, ok \in BOOLEAN, conclusion \in Conclusions :
          ReplayCallReturns(p, ok, conclusion)
    \/ \E payload \in QueuePayloads : OfflineSubmission(payload)
    \/ HandleLogout
    \/ HandleLoginSuccess

InitClient == ServerStart /\ ClientStart /\ ChatStart /\ AiStart

SpecQueue == InitClient /\ [][NextQueue]_vars

\* the SkinDetector rendered on its own: its submission handler step by
\* step, the connectivity signal and the clock of the browser, and the
\* queue in localStorage; the App and its replay are the subject of SpecQueue
NextSubmit ==
    \/ OnlineEvent
    \/ OfflineEvent
    \/ ClientTick
    \/ \E file \in Files : HandleFileChange(file)
    \/ HandleProceedToMcq
    \/ \E language \in Languages, mcqAnswers \in McqAnswerSets :
          HandleSubmitAnalysis(language, mcqAnswers)
    \/ \E readOk \in BOOLEAN : FileReaderDone(readOk)
    \/ \E ok \in BOOLEAN : StartSkinAnalysisReturns(ok)
    \/ \E ok \in BOOLEAN : GetSkinAnalysisConclusionReturns(ok)
    \/ AnalysisCompleteTimer
    \/ OnBack
    \/ NavigateToSkin
    \/ OnReset

SpecSubmit == InitClient /\ [][NextSubmit]_vars

\* the entries an earlier run of the App may have left in the queue
StoredRequests ==
    {[id |-> t, payload |-> payload, timestamp |-> t] :
        t \in 0..MaxClientTime, payload \in QueuePayloads}

\* the results an earlier run may have left in the result store
StoredResults ==
    {AnalyzeSkinResult(payload, conclusion) :
        payload \in QueuePayloads, conclusion \in Conclusions}

\* the sequences over a set, up to a length
SeqsUpTo(S, n) ==
    UNION {[1..k -> S] : k \in 0..n}

\* the App starts in a browser whose localStorage holds what earlier runs
\* have left: a queue in the order of its enqueues and a result store;
\* together they are small enough for the store to take a result for every
\* queued entry
InitStored ==
    /\ ServerStart /\ ChatStart /\ AiStart
    /\ ScriptStart
    /\ \E queue \in SeqsUpTo(StoredRequests, MaxQueueLen),
          results \in SeqsUpTo(StoredResults, MaxResults) :
          /\ \A i \in 1..Len(queue) - 1 : queue[i].id <= queue[i + 1].id
          /\ Len(queue) + Len(results) <= MaxResults
          /\ analysisQueueItem = StoredList(queue)
          /\ analysisResultsItem = StoredList(results)

\* the replay and the Home component that presents its results: one run
\* of the App over the stored collections, in which the browser is online
\* or comes online and the user views results and returns to Home.  The
\* passes of this run do not overlap; overlapping passes are the subject of
\* SpecQueue.
NextHome ==
    \/ AppEffectMount(FALSE)
    \/ OnlineEvent
    \/ \E p \in Passes, ok \in BOOLEAN, conclusion \in Conclusions :
          ReplayCallReturns(p, ok, conclusion)
    \/ HomeEffect
    \/ HandleViewResultClick
    \/ OnReset

SpecHome == InitStored /\ [][NextHome]_vars

\* React runs the effect of a mounted App, and every fetch of a pass
\* settles: it resolves or it rejects
ReplayFairness ==
    /\ WF_vars(AppEffectMount(FALSE))
    /\ \A p \in Passes :
          WF_vars(\E ok \in BOOLEAN, conclusion \in Conclusions :
                     ReplayCallReturns(p, ok, conclusion))

SpecReplay == InitStored /\ [][NextHome]_vars /\ ReplayFairness

\* the SkinDetector within the App: the user may leave it by the home button
\* of the Header at any moment
NextNavigate ==
    \/ NextSubmit
    \/ HeaderHomeClick

SpecNavigate == InitClient /\ [][NextNavigate]_vars

\* the camera of one SkinDetector, from its mount to after its unmount
NextCamera ==
    \/ OpenCamera
    \/ \E ok \in BOOLEAN : GetUserMediaReturns(ok)
    \/ HandleCapture
    \/ HandleRetake
    \/ HandleConfirmPhoto
    \/ ConfirmPhotoDone
    \/ CloseCamera
    \/ CameraTeardown

SpecCamera == InitClient /\ [][NextCamera]_vars

NextServer ==
    \/ \E validBody \in BOOLEAN, outcome \in {"text", "rateLimit", "failure"},
          text \in Descriptions \cup {""} :
          DescribeSkinImage(validBody, outcome, text)
    \/ \E id \in SessionIds : CleanupTimerFires(id)
    \/ \E r \in Requests, id \in RequestIds : GetSkinConclusionLookup(r, id)
    \/ \E r \in Requests, outcome \in ModelOutcomes :
          GetSkinConclusionReply(r, outcome)
    \/ ServerTick

InitServer ==
    ServerStart /\ ClientStart /\ ~online /\ ChatStart /\ AiStart

SpecServer == InitServer /\ [][NextServer]_vars

\* the two ways to an analysis result, on the same answers of the model:
\* describe-skin-image followed by get-skin-conclusion, and analyze-skin
NextParser ==
    \/ \E validBody \in BOOLEAN :
          DescribeSkinImage(validBody, modelAnswer.description.kind,
                            modelAnswer.description.text)
    \/ \E r \in Requests, id \in RequestIds : GetSkinConclusionLookup(r, id)
    \/ \E r \in Requests :
          GetSkinConclusionReply(r, ReplyOutcome(modelAnswer.conclusion))
    \/ \E validBody \in BOOLEAN : AnalyzeSkin(validBody)

InitParser ==
    /\ ServerStart /\ ClientStart /\ ~online /\ ChatStart
    /\ modelAnswer \in [description : DescriptionAnswers,
                        conclusion : ConclusionAnswers]
    /\ combinedResponse = {}

SpecParser == InitParser /\ [][NextParser]_vars

\* the chat turns of one user
NextChat ==
    \/ \E message \in ChatMessages, language \in ChatLanguages :
          ChatRequest(message, language)
    \/ \E outcome \in ChatOutcomes, responseText \in ChatReplyTexts :
          ChatModelReturns(outcome, responseText)

SpecChat == InitServer /\ [][NextChat]_vars

\* every history the collection can hold
StoredHistories ==
    UNION {[1..n -> Turns] : n \in 0..(MaxHistory - 2)}

\* the sanitization, applied to any stored history
InitSanitize ==
    /\ ServerStart /\ ClientStart /\ ~online /\ AiStart
    /\ chat = IdleChat
    /\ chatSession \in {{[language |-> l, history |-> h]} :
                          l \in ChatLanguages, h \in StoredHistories}

SpecSanitize == InitSanitize /\ [][NextChat]_vars

(***************************************************************************)
(* Properties of the analysis session cache.                               *)
(***************************************************************************)
\* the analysisIds on which a get-skin-conclusion request has succeeded
ConsumedIds ==
    {p2[r].analysisId : r \in {q \in Requests : p2[q].status = 200}}

\* request r performs its cache lookup in this step
LooksUp(r) ==
    p2[r].pc = "idle" /\ p2'[r].pc # "idle"

\* C1: of two get-skin-conclusion requests for the same analysisId that are
\* processed concurrently, at most one obtains the cached description and
\* succeeds.
C1_AtMostOneConsume ==
    \A r1, r2 \in Requests :
        (/\ r1 # r2
         /\ p2[r1].analysisId = p2[r2].analysisId
         /\ p2[r1].status = 200)
        => p2[r2].status # 200

\* C2: once a get-skin-conclusion request on an analysisId has succeeded,
\* every later request with that analysisId is a miss (404).
C2_SingleUse ==
    [][\A r \in Requests :
         (LooksUp(r) /\ p2'[r].analysisId \in ConsumedIds)
         => p2'[r].status = 404]_vars

\* C2 witness: a request succeeded on a session whose timer never ran, and
\* another request on the same analysisId was answered 404.
C2_Witness ==
    \E r1, r2 \in Requests :
        /\ p2[r1].status = 200
        /\ p2[r2].status = 404
        /\ p2[r1].analysisId = p2[r2].analysisId
        /\ timers[p2[r1].analysisId] = "cleared"

\* C3: every lookup of an analysisId made more than 15 minutes after its
\* creation is a miss (404), whatever happened in between.
C3_ExpiredIsMiss ==
    [][\A r \in Requests :
         (/\ LooksUp(r)
          /\ p2'[r].analysisId \in SessionIds
          /\ serverNow > timerDue[p2'[r].analysisId])
         => p2'[r].status = 404]_vars

Count(e, list) ==
    Cardinality({i \in 1..Len(list) : list[i] = e})

RECURSIVE IsSubsequence(_, _)
\* s can be obtained from t by dropping elements
IsSubsequence(s, t) ==
    IF Len(s) = 0 THEN TRUE
    ELSE IF Len(t) = 0 THEN FALSE
    ELSE IF Head(s) = Head(t) THEN IsSubsequence(Tail(s), Tail(t))
    ELSE IsSubsequence(s, Tail(t))

\* the positions of the entries of a pass whose call failed (or succeeded)
PositionsWhere(log, failed) ==
    SelectSeq([i \in 1..Len(log) |-> i],
              LAMBDA i : (log[i] = "failed") = failed)

\* the entries of the iterated array whose call failed, in array order
FailedEntries(snapshot, log) ==
    LET at == PositionsWhere(log, TRUE)
    IN [k \in 1..Len(at) |-> snapshot[at[k]]]

\* one result per entry whose call succeeded, in array order
SuccessResults(snapshot, log) ==
    LET at == PositionsWhere(log, FALSE)
    IN [k \in 1..Len(at) |->
          AnalyzeSkinResult(snapshot[at[k]].payload, log[at[k]])]

\* pass p runs its two writes (lines 132-133) in this step
Finishes(p) ==
    /\ pass[p].pc = "calling"
    /\ pass'[p].pc = "idle"
    /\ appEffect' = "mounted"

\* the outcomes of all the calls of pass p, at the step in which it finishes
FinalLog(p) ==
    LET stored == ParseList(analysisResultsItem')
    IN Append(pass[p].log,
              IF Len(stored) > Len(pass[p].results)
                THEN stored[Len(stored)].conclusion
                ELSE "failed")

\* C5: a replay pass takes the entries of the queue in order and one at a
\* time, attempts every entry even after a failed call, and every entry
\* whose call failed is in the stored queue after the pass, the failed
\* entries keeping their relative order.
C5_ReplayInOrder ==
    [][\A p \in Passes :
         /\ (pass[p].pc = "calling" /\ pass'[p].pc = "calling")
            => /\ pass'[p].snapshot = pass[p].snapshot
               /\ pass'[p].idx \in {pass[p].idx, pass[p].idx + 1}
               /\ Len(pass'[p].log) = pass'[p].idx - 1
         /\ Finishes(p)
            => /\ pass[p].idx = Len(pass[p].snapshot)
               /\ IsSubsequence(FailedEntries(pass[p].snapshot, FinalLog(p)),
                                ParseList(analysisQueueItem'))]_vars

\* C6: an entry leaves the stored queue only if a remote call for it has
\* completed successfully.
C6_RemovedOnlyIfDelivered ==
    [][LET before == ParseList(analysisQueueItem)
           after == ParseList(analysisQueueItem')
       IN \A i \in 1..Len(before) :
            Count(before[i], after) < Count(before[i], before)
            => before[i] \in delivered']_vars

\* C7: no two replay passes have a remote call in flight for the same entry
\* of the same queue content.
C7_NoConcurrentCallForEntry ==
    \A p, q \in Passes :
        (/\ p # q
         /\ pass[p].pc = "calling"
         /\ pass[q].pc = "calling")
        => ~(/\ pass[p].snapshot = pass[q].snapshot
             /\ pass[p].idx = pass[q].idx)

\* C8: the entries added to the stored queue after a pass has read it are
\* still in the stored queue when that pass has written it.
C8_EnqueuedDuringPassKept ==
    [][\A p \in Passes :
         LET before == ParseList(analysisQueueItem)
             after == ParseList(analysisQueueItem')
             read == Len(pass[p].snapshot)
         IN (/\ Finishes(p)
             /\ Len(before) > read
             /\ SubSeq(before, 1, read) = pass[p].snapshot)
            => IsSubsequence(SubSeq(before, read + 1, Len(before)),
                             after)]_vars

\* the queue entry an offline submission in its present state would add
SubmittedEntry ==
    [id |-> clientNow, payload |-> submission.payload,
     timestamp |-> clientNow]

\* the submission handler passes its connectivity test in this step
TestsConnectivity ==
    submission.pc = "reading" /\ submission'.pc # "reading"

\* C9 as stated: a submission that reaches its connectivity test while the
\* signal is offline makes no remote request and appends exactly one entry
\* carrying its payload to the end of the stored queue.
C9_OfflineSubmissionEnqueues ==
    [][(TestsConnectivity /\ ~online)
       => /\ submission'.pc \notin {"phase1", "phase2"}
          /\ ParseList(analysisQueueItem') =
                Append(ParseList(analysisQueueItem), SubmittedEntry)]_vars

\* C9 amended: a submission whose image has been encoded and that finds the
\* signal offline at its connectivity test makes no remote request, appends
\* exactly one entry carrying its payload to the end of the stored queue
\* and shows the queued view; one whose image could not be encoded makes no
\* remote request and leaves the queue as it was.
C9_EncodedOfflineSubmissionEnqueues ==
    [][(TestsConnectivity /\ ~online)
       => /\ submission'.pc = "idle"
          /\ IF detector'.error = "error_read_file"
               THEN /\ analysisQueueItem' = analysisQueueItem
                    /\ detector'.step = "upload"
               ELSE /\ ParseList(analysisQueueItem') =
                          Append(ParseList(analysisQueueItem), SubmittedEntry)
                    /\ detector'.step = "queued"
          /\ analysisResultsItem' = analysisResultsItem]_vars

\* C9 witness: offline, the queued view is shown and the stored queue ends
\* with an entry carrying the payload of the submission, behind an entry of
\* an earlier submission with another image.
C9_Witness ==
    LET queue == ParseList(analysisQueueItem)
    IN /\ ~online
       /\ detector.step = "queued"
       /\ submission.pc = "idle"
       /\ Len(queue) = 2
       /\ queue[2].payload = submission.payload
       /\ queue[1].payload # queue[2].payload

\* C10: a pass that ran with no other operation in between leaves the
\* stored results as they were followed by one result per successful call,
\* in order, and leaves exactly the entries whose call failed in the stored
\* queue, in order.
C10_PassOutcome ==
    [][\A p \in Passes :
         (Finishes(p) /\ pass[p].alone)
         => /\ ParseList(analysisResultsItem') =
                 ParseList(analysisResultsItem)
                 \o SuccessResults(pass[p].snapshot, FinalLog(p))
            /\ ParseList(analysisQueueItem') =
                 FailedEntries(pass[p].snapshot, FinalLog(p))]_vars

(***************************************************************************)
(* Properties of the chat handler.                                         *)
(***************************************************************************)
\* no two neighbouring turns have the same role
Alternates(history) ==
    \A i \in 1..(Len(history) - 1) : history[i].role # history[i + 1].role

\* the stored history of the user; empty when there is no session
StoredHistory ==
    IF chatSession = {} THEN <<>>
    ELSE (CHOOSE s \in chatSession : TRUE).history

\* C11: whatever the stored history is, the history passed to the model is
\* empty, or starts with a user turn, alternates between user and model and
\* ends with a model turn.
C11_SanitizedHistoryWellFormed ==
    chat.pc = "sending"
    => \/ Len(chat.sent) = 0
       \/ /\ chat.sent[1].role = "user"
          /\ Alternates(chat.sent)
          /\ chat.sent[Len(chat.sent)].role = "model"

\* the handler answers a failure in this step
ChatTurnFails ==
    chat.pc = "sending" /\ chat'.pc = "idle" /\ chat'.status # 200

\* C12: when the model call of a chat turn fails after the user turn was
\* saved, the stored history is as long as it was before the user turn was
\* added.
C12_FailedTurnRolledBack ==
    [][ChatTurnFails
       => Len(StoredHistory') = Len(StoredHistory) - 1]_vars

\* the handler takes a request up to its model call in this step
ChatTurnStarts ==
    chat.pc = "idle" /\ chat'.pc = "sending"

\* C17: a request in another language than the stored one empties the
\* history before the turn is processed, so the model is given no turn of
\* the previous language; a request in the stored language keeps the
\* history.
C17_LanguageChangeResets ==
    [][(ChatTurnStarts /\ chatSession # {})
       => LET stored == CHOOSE s \in chatSession : TRUE
              userTurn == [role |-> "user", text |-> chat'.message]
          IN IF stored.language # chat'.language
               THEN /\ chat'.sent = <<>>
                    /\ StoredHistory' = <<userTurn>>
                    /\ (CHOOSE s \in chatSession' : TRUE).language
                          = chat'.language
               ELSE /\ StoredHistory' = Append(stored.history, userTurn)
                    /\ chat'.sent = SanitizeHistory(stored.history)
                    /\ (CHOOSE s \in chatSession' : TRUE).language
                          = stored.language]_vars

\* C17 witness: a request found a session of another language holding a
\* completed exchange; the model was given an empty history and the stored
\* history holds the new user turn only.
C17_Witness ==
    /\ chat.pc = "sending"
    /\ chat.found # {}
    /\ LET found == CHOOSE s \in chat.found : TRUE
       IN /\ found.language # chat.language
          /\ Len(found.history) >= 2
          /\ found.history[2].role = "model"
    /\ chat.sent = <<>>
    /\ StoredHistory = <<[role |-> "user", text |-> chat.message]>>

\* C20: after any sequence of chat turns, failed or not, the stored history
\* starts with a user turn and alternates between user and model turns.
C20_StoredHistoryAlternates ==
    Len(StoredHistory) > 0
    => /\ StoredHistory[1].role = "user"
       /\ Alternates(StoredHistory)

(***************************************************************************)
(* Properties of the parser, of analyze-skin and of handleAIError.         *)
(***************************************************************************)
\* request r found its session and has been answered
Hit(r) ==
    p2[r].pc = "done" /\ p2[r].calledModel

\* the text of the reply to the analysis prompt, <<>> when the call throws
ReplyText ==
    modelAnswer.conclusion.text

\* the reply to the analysis prompt is a text that is not empty
RepliesWithText ==
    modelAnswer.conclusion.kind = "text" /\ Len(ReplyText) > 0

\* analyze-skin has answered and its request got as far as the analysis
\* prompt
CombinedConcluded ==
    /\ combinedResponse # {}
    /\ (CHOOSE c \in combinedResponse : TRUE).validBody
    /\ modelAnswer.description.kind = "text"
    /\ modelAnswer.description.text # ""

\* the tokens of the reply after the given label, up to the next label
PartAfter(text, label) ==
    LET labels == {"CONCLUSION:", "EXPLANATION:", "SELF_CARE_TIPS:",
                   "DOCTOR_SUGGESTION:"}
        at == {i \in 1..Len(text) : text[i] = label}
    IN IF at = {} THEN <<>>
       ELSE LET start == CHOOSE i \in at : \A j \in at : i <= j
                later == {i \in (start + 1)..Len(text) : text[i] \in labels}
                stop == IF later = {} THEN Len(text) + 1
                        ELSE CHOOSE i \in later : \A j \in later : i <= j
            IN SubSeq(text, start + 1, stop - 1)

\* the words of a part of the reply
WordsOf(part) ==
    SelectSeq(part, LAMBDA t : t \notin Whitespace \cup {"* "})

\* the items of a part of the reply: the word behind each "* "
MarkedItems(part) ==
    LET marks == SelectSeq([i \in 1..Len(part) |-> i],
                           LAMBDA i : part[i] = "* " /\ i < Len(part))
    IN [k \in 1..Len(marks) |-> <<part[marks[k] + 1]>>]

\* C13: every item marked "* " in the SELF_CARE_TIPS part of the reply, on
\* the label line or on the lines after it, is in selfCareTips, in order
\* and without the mark.
C13_AllTipsReturned ==
    \A r \in Requests :
        (Hit(r) /\ p2[r].status = 200 /\ RepliesWithText)
        => ConclusionResponse(modelAnswer.conclusion).body.selfCareTips
             = MarkedItems(PartAfter(ReplyText, "SELF_CARE_TIPS:"))

\* the reply has a CONCLUSION line whose value is MILD or SERIOUS, in any
\* letter case
HasConclusionLine ==
    \E i \in 1..Len(ReplyText) :
        /\ ReplyText[i] = "CONCLUSION:"
        /\ (i = 1 \/ ReplyText[i - 1] = "\n")
        /\ \E w \in {"MILD", "mild", "SERIOUS", "serious"} :
              WordsOf(PartAfter(ReplyText, "CONCLUSION:")) = <<w>>

\* the reply has an EXPLANATION line
HasExplanationLine ==
    \E i \in 1..Len(ReplyText) :
        /\ ReplyText[i] = "EXPLANATION:"
        /\ (i = 1 \/ ReplyText[i - 1] = "\n")

\* C14: a reply without a CONCLUSION line, or with a conclusion that is
\* neither MILD nor SERIOUS, or without an EXPLANATION line, is answered
\* with the unparsable-response failure and never with a result, by
\* get-skin-conclusion and by analyze-skin.
C14_UnparsableRejected ==
    (RepliesWithText /\ (~HasConclusionLine \/ ~HasExplanationLine))
    => /\ \A r \in Requests :
            Hit(r)
            => /\ p2[r].status = 500
               /\ ConclusionResponse(modelAnswer.conclusion).body =
                    [message |->
                       <<"Received an unparsable response from the AI.">>]
       /\ CombinedConcluded
          => LET c == CHOOSE c \in combinedResponse : TRUE
             IN /\ c.status = 500
                /\ c.body = [message |->
                               <<"Received an unparsable AI response.">>]

\* C14 witness: both endpoints have rejected a reply that has an
\* EXPLANATION line and no CONCLUSION line.
C14_Witness ==
    /\ RepliesWithText
    /\ HasExplanationLine
    /\ \A i \in 1..Len(ReplyText) : ReplyText[i] # "CONCLUSION:"
    /\ \E r \in Requests : Hit(r) /\ p2[r].status = 500
    /\ CombinedConcluded
    /\ (CHOOSE c \in combinedResponse : TRUE).status = 500

\* the reply has the four lines, with CONCLUSION: MILD and with
\* SELF_CARE_TIPS: NONE in some letter case
FourLinesMildNoTips ==
    LET lines == Split(ReplyText, "\n")
    IN /\ Len(lines) = 4
       /\ lines[1] = <<"CONCLUSION:", " ", "MILD">>
       /\ Len(lines[2]) > 1 /\ lines[2][1] = "EXPLANATION:"
       /\ \E none \in {"NONE", "none", "None"} :
             lines[3] = <<"SELF_CARE_TIPS:", " ", none>>
       /\ Len(lines[4]) > 1 /\ lines[4][1] = "DOCTOR_SUGGESTION:"

\* C15: a well-formed four-line reply with CONCLUSION: MILD and
\* SELF_CARE_TIPS: NONE, in any letter case, gives a result whose
\* selfCareTips is empty.
C15_NoneIsNoTip ==
    (RepliesWithText /\ FourLinesMildNoTips)
    => /\ \A r \in Requests :
            Hit(r)
            => /\ p2[r].status = 200
               /\ ConclusionResponse(modelAnswer.conclusion).body.conclusion
                    = "MILD"
               /\ ConclusionResponse(modelAnswer.conclusion).body.selfCareTips
                    = <<>>
       /\ CombinedConcluded
          => LET c == CHOOSE c \in combinedResponse : TRUE
             IN c.status = 200 /\ c.body.selfCareTips = <<>>

\* C15 witness: both endpoints have answered a four-line reply whose tips
\* line reads "none" in lower case.
C15_Witness ==
    /\ RepliesWithText
    /\ FourLinesMildNoTips
    /\ Split(ReplyText, "\n")[3] = <<"SELF_CARE_TIPS:", " ", "none">>
    /\ \E r \in Requests : Hit(r) /\ p2[r].status = 200
    /\ CombinedConcluded

\* the failure a message of the two endpoints stands for; the endpoints word
\* the empty and the unparsable reply differently
FailureKind(message) ==
    IF message \in {<<"Received an unparsable response from the AI.">>,
                    <<"Received an unparsable AI response.">>}
      THEN <<"UnparsableResponse">>
    ELSE IF message \in
              {<<"AI model returned an empty response during the final analysis.">>,
               <<"AI model returned an empty response.">>}
      THEN <<"EmptyResponse">>
    ELSE message

\* C16: on the same body and the same answers of the model, analyze-skin
\* answers what describe-skin-image followed by get-skin-conclusion answers:
\* the same status, on success the same result and on failure the same kind
\* of failure; and it creates, reads and deletes no analysis session.
C16_CombinedAsTwoPhase ==
    /\ [](\A c \in combinedResponse :
            (p1Response # 0 /\ ((p1Response = 400) <=> ~c.validBody))
            => IF p1Response # 200
                 THEN c.status = p1Response
                 ELSE \A r \in Requests :
                        Hit(r)
                        => /\ c.status = p2[r].status
                           /\ c.status = 200
                              => c.body = ConclusionResponse(
                                            modelAnswer.conclusion).body
                           /\ c.status # 200
                              => FailureKind(c.body.message) =
                                   FailureKind(ConclusionResponse(
                                     modelAnswer.conclusion).body.message))
    /\ [][combinedResponse' # combinedResponse
          => /\ analysisCache' = analysisCache
             /\ timers' = timers
             /\ nextAnalysisId' = nextAnalysisId]_vars

\* C16 witness: both ways have produced a result with two tips, and the
\* session of the two-phase way is consumed.
C16_Witness ==
    /\ p1Response = 200
    /\ \E r \in Requests : Hit(r) /\ p2[r].status = 200
    /\ analysisCache = [k \in {} |-> 0]
    /\ \E c \in combinedResponse :
          c.status = 200 /\ Len(c.body.selfCareTips) = 2

\* the error carries a rate-limit signal
CarriesRateLimitSignal(error) ==
    \/ 429 \in {error.status, error.code}
    \/ \E w \in {"429", "quota"} :
          w \in {error.message[i] : i \in 1..Len(error.message)}

\* the model call for the analysis prompt threw an error with that signal
RateLimited ==
    /\ modelAnswer.conclusion.kind = "error"
    /\ CarriesRateLimitSignal(modelAnswer.conclusion.error)

\* C18: a failure of an endpoint handler is answered 429 with the
\* rate-limit message exactly when the error carries a rate-limit signal,
\* and 500 otherwise; a session miss is 404 and an invalid body is 400.
C18_RateLimitDistinguished ==
    /\ \A r \in Requests :
          /\ (Hit(r) /\ p2[r].status # 200)
             => LET body == ConclusionResponse(modelAnswer.conclusion).body
                IN IF RateLimited
                     THEN p2[r].status = 429 /\ body.message = RateLimitMessage
                     ELSE p2[r].status = 500 /\ body.message # RateLimitMessage
          /\ (p2[r].pc = "done" /\ ~p2[r].calledModel) => p2[r].status = 404
    /\ \A c \in combinedResponse :
          /\ ~c.validBody => c.status = 400
          /\ (CombinedConcluded /\ c.status # 200)
             => IF RateLimited
                  THEN c.status = 429 /\ c.body.message = RateLimitMessage
                  ELSE c.status = 500 /\ c.body.message # RateLimitMessage
    /\ p1Response = 429 => modelAnswer.description.kind = "rateLimit"

\* C18 witness: both endpoints have answered 429 to an error whose only
\* signal is the word quota in its message.
C18_Witness ==
    /\ modelAnswer.conclusion.kind = "error"
    /\ modelAnswer.conclusion.error.status # 429
    /\ modelAnswer.conclusion.error.code # 429
    /\ modelAnswer.conclusion.error.message = <<"quota", "exceeded">>
    /\ \E r \in Requests : Hit(r) /\ p2[r].status = 429
    /\ CombinedConcluded
    /\ (CHOOSE c \in combinedResponse : TRUE).status = 429

\* the value of the given label in the reply is NONE, in any letter case,
\* or empty
NoneOrEmpty(label) ==
    \/ WordsOf(PartAfter(ReplyText, label)) = <<>>
    \/ \E none \in {"NONE", "none", "None"} :
          WordsOf(PartAfter(ReplyText, label)) = <<none>>

\* C19: when the DOCTOR_SUGGESTION value of the reply is NONE or empty the
\* result has no doctorSuggestion field, and when the SELF_CARE_TIPS value
\* is NONE or empty the result has no tips.
C19_NoneIsAbsent ==
    \A r \in Requests :
        (Hit(r) /\ p2[r].status = 200 /\ RepliesWithText)
        => LET body == ConclusionResponse(modelAnswer.conclusion).body
           IN /\ NoneOrEmpty("DOCTOR_SUGGESTION:")
                 => "doctorSuggestion" \notin DOMAIN body
              /\ NoneOrEmpty("SELF_CARE_TIPS:")
                 => \/ "selfCareTips" \notin DOMAIN body
                    \/ body.selfCareTips = <<>>

\* C28: the history given to the model is a subsequence of the history the
\* session held when it was sanitized: turns are dropped, none is added,
\* moved or altered.
C28_SanitizedIsSubsequence ==
    chat.pc = "sending"
    => IsSubsequence(chat.sent,
                     SubSeq(StoredHistory, 1, Len(StoredHistory) - 1))

\* C28 witness: the sanitizer has dropped some turns of a stored history and
\* has given the remaining two or more to the model.
C28_Witness ==
    /\ chat.pc = "sending"
    /\ Len(chat.sent) >= 2
    /\ Len(chat.sent) < Len(StoredHistory) - 1

(***************************************************************************)
(* Properties of the session cache after a failed phase 2.                 *)
(***************************************************************************)
\* request r found its session and was answered with a failure
FailedAfterHit(r) ==
    Hit(r) /\ p2[r].status \in {429, 500}

\* some request has consumed the session of the given id
ConsumedBySuccess(id) ==
    \E q \in Requests :
        p2[q].pc = "done" /\ p2[q].analysisId = id /\ p2[q].status = 200

CollectionsRemoved ==
    analysisQueueItem = RemovedItem /\ analysisResultsItem = RemovedItem

\* this step is queueAnalysisRequest: it writes the queue and nothing else
EnqueueStep ==
    /\ analysisQueueItem' # analysisQueueItem
    /\ analysisResultsItem' = analysisResultsItem

\* C29: once logout has removed the queue and the result store they stay
\* empty until an offline submission is made, also when a replay pass was
\* in flight at the logout.
C29_EmptyAfterLogout ==
    [][(CollectionsRemoved /\ ~EnqueueStep)
       => /\ ParseList(analysisQueueItem') = <<>>
          /\ ParseList(analysisResultsItem') = <<>>]_vars

(***************************************************************************)
(* Properties of the views, of the submission and of the camera.           *)
(***************************************************************************)
\* the handler of an online analysis is in flight and the user has left the
\* SkinDetector that started it
Abandoned ==
    ~SkinMounted /\ submission.pc \in {"phase1", "phase2", "timer"}

\* C22: the steps of an online analysis whose SkinDetector the user has
\* left deliver no result to the App, do not change the view and leave the
\* queue and the result store as they are.
C22_AbandonedAnalysisIsSilent ==
    [][(Abandoned /\ submission' # submission)
       => /\ app' = app
          /\ analysisQueueItem' = analysisQueueItem
          /\ analysisResultsItem' = analysisResultsItem]_vars

\* C23: a SkinDetector has at most one live camera stream at any moment.
C23_OneLiveStream ==
    Cardinality(camera.live) <= 1

\* the overlay is closed, or the component torn down, in this step
ClosesCamera ==
    \/ camera.isCameraOpen /\ ~camera'.isCameraOpen
    \/ camera.mounted /\ ~camera'.mounted

\* C24: after confirm, cancel or teardown no camera stream is live, and
\* none becomes live for a component that has been torn down.
C24_NoStreamAfterClose ==
    /\ [](~camera.mounted => camera.live = {})
    /\ [][ClosesCamera => camera'.live = {}]_vars

\* the handler of a submission ends in this step without a result
EndsWithoutResult ==
    submission.pc \in {"reading", "phase1", "phase2"} /\ submission'.pc = "idle"

ViewsResult ==
    app.currentView = "Home" /\ app'.currentView = "Result"

\* C21: the result store is consumed from the front and extended at the
\* end: a view shows the oldest stored result and leaves the rest, a pass
\* that finishes leaves what is stored and appends its results, and no
\* other step changes the store.
C21_ResultsPresentedOnce ==
    [][LET stored == ParseList(analysisResultsItem)
       IN /\ ViewsResult
             => /\ stored # <<>>
                /\ app'.result = {Head(stored)}
                /\ ParseList(analysisResultsItem') = Tail(stored)
          /\ \A p \in Passes :
                Finishes(p)
                => ParseList(analysisResultsItem') =
                      stored \o SuccessResults(pass[p].snapshot, FinalLog(p))
          /\ (~ViewsResult /\ \A p \in Passes : ~Finishes(p))
             => ParseList(analysisResultsItem') = stored]_vars

\* C25: a pass that finishes, whatever the outcomes of its calls, emits
\* queueProcessed, and the listener of a mounted Home finds both collections
\* as the pass has written them; nothing else emits the event.
C25_NotifiedAfterWrites ==
    [][/\ \A p \in Passes :
             Finishes(p)
             => /\ queueProcessed' # queueProcessed
                /\ home.mounted
                   => /\ home'.offlineResults =
                            ParseList(analysisResultsItem')
                      /\ home'.queuedCount =
                            Len(ParseList(analysisQueueItem'))
       /\ queueProcessed' # queueProcessed
          => \E p \in Passes : Finishes(p)]_vars

\* C25 witness: a pass has finished with an entry left and a result stored,
\* and Home shows both.
C25_Witness ==
    /\ queueProcessed = 1
    /\ home.mounted
    /\ home.queuedCount > 0
    /\ home.offlineResults # <<>>
    /\ home.offlineResults = ParseList(analysisResultsItem)

\* the connectivity-restored event reaches the registered handler, or the
\* effect of the App runs while the browser is online
Triggers ==
    \/ ~online /\ online' /\ Running
    \/ appEffect # "mounted" /\ appEffect' = "mounted" /\ online

\* no call of pass p has failed, seen at the step in which it finishes
AllSucceeded(p) ==
    \A i \in 1..Len(FinalLog(p)) : FinalLog(p)[i] # "failed"

\* C26: a trigger on a non-empty queue starts a pass over that queue; every
\* pass comes to its end; and a pass all of whose calls succeeded writes an
\* empty queue and a result store that ends with one result for every entry
\* of the queue, in the order of the queue.
C26_ReplayDrainsQueue ==
    /\ [][(Triggers /\ ParseList(analysisQueueItem) # <<>>)
          => \E p \in Passes :
                /\ pass[p].pc = "idle"
                /\ pass'[p].pc = "calling"
                /\ pass'[p].snapshot = ParseList(analysisQueueItem)]_vars
    /\ \A p \in Passes : (pass[p].pc = "calling") ~> (pass[p].pc = "idle")
    /\ [][\A p \in Passes :
             (Finishes(p) /\ AllSucceeded(p))
             => LET new == SuccessResults(pass[p].snapshot, FinalLog(p))
                    stored == ParseList(analysisResultsItem')
                IN /\ ParseList(analysisQueueItem') = <<>>
                   /\ Len(new) = Len(pass[p].snapshot)
                   /\ Len(stored) >= Len(new)
                   /\ SubSeq(stored, Len(stored) - Len(new) + 1,
                             Len(stored)) = new]_vars

\* C26 witness: a pass over two entries has finished with every call
\* successful: the queue is empty and the store holds the two results.
C26_Witness ==
    /\ queueProcessed = 1
    /\ \A p \in Passes : pass[p].pc = "idle"
    /\ ParseList(analysisQueueItem) = <<>>
    /\ Cardinality(delivered) >= 2
    /\ Len(ParseList(analysisResultsItem)) >= 2

====
